---------------------------- MODULE Spec2Model ----------------------------
(***************************************************************************)
(* Model of the booking-analytics dashboard: the record filter of          *)
(* DashboardLayout, the aggregation / comparison / ranking memo of         *)
(* TopAccommodationsTable, the monthly buckets of CancellationRateChart     *)
(* and the monthly totals of CommissionsChart.                             *)
(*                                                                         *)
(* Values                                                                  *)
(*   Date      [k |-> "date", t |-> n]  n = half-days (00:00 and 12:00)    *)
(*             since 2023-01-01 00:00 local time; [k |-> "invalid"] is an  *)
(*             Invalid Date; [k |-> "null"] is a missing (falsy) value.    *)
(*   optional  <<>> is undefined, <<v>> is the value v.                    *)
(*   number    amounts are JavaScript numbers.  A binary64 value is kept   *)
(*             as an integer count of quanta; adding or subtracting        *)
(*             amounts rounds to MantBits significant bits, to nearest,    *)
(*             ties to even, as IEEE 754 does with 53 bits.  Counts and    *)
(*             nights are small integers and are added exactly.  The       *)
(*             integer NotANumber, which no sum of the model reaches,      *)
(*             stands for NaN.                                             *)
(*   amount    the totalPrice or commission of a record, number | string | *)
(*             undefined: [type, num, text] with the number in num or the  *)
(*             characters of the string in text.                           *)
(***************************************************************************)
EXTENDS Integers, Sequences, FiniteSets, TLC

VARIABLES
    data,               \* DashboardLayout: useState<BookingData[]>
    isYearComparison,   \* DashboardLayout: useState<boolean>
    selectedYear1,      \* DashboardLayout: useState<number>
    selectedYear2,      \* DashboardLayout: useState<number>
    selectedRegion,     \* DashboardLayout: useState<string>
    dateRange,          \* the free identifier read by the date-mode filter
    filteredData,       \* DashboardLayout: useMemo, prop `data` of the table
    comparisonData,     \* DashboardLayout: useMemo, optional
    console,            \* console.error calls of the passes that produced
                        \* the present filteredData and comparisonData
    currentStats,       \* TopAccommodationsTable: calculateStats(data)
    comparisonStats,    \* TopAccommodationsTable: calculateStats(comparisonData) or []
    accommodationStats, \* TopAccommodationsTable: useMemo
    startDate,          \* CancellationRateChart: prop
    endDate,            \* CancellationRateChart: prop
    monthlyData,        \* CancellationRateChart: the Map, as a sequence of entries
    chartData,          \* CommissionsChart: useMemo, its labels and its data
    phase               \* "props" before a component's memo has run, then "rendered"

vars == <<data, isYearComparison, selectedYear1, selectedYear2, selectedRegion,
          dateRange, filteredData, comparisonData, console, currentStats,
          comparisonStats, accommodationStats, startDate, endDate, monthlyData,
          chartData, phase>>

layoutVars == <<data, isYearComparison, selectedYear1, selectedYear2,
                selectedRegion, dateRange, console>>

chartVars == <<startDate, endDate, monthlyData, chartData>>

-----------------------------------------------------------------------------
(* Bounds *)

MaxData == 2        \* records per upload in Spec
MaxLen == 3         \* records per input in SpecStats
MaxCmpLen == 2      \* records per period in SpecCompare
MantBits == 3       \* significant bits kept by an addition

-----------------------------------------------------------------------------
(* Generic helpers *)

Undefined == <<>>

Some(v) == <<v>>

IsDefined(o) == Len(o) = 1

Min(a, b) == IF a < b THEN a ELSE b

RECURSIVE SeqsUpTo(_, _)
SeqsUpTo(S, n) ==
    IF n = 0 THEN {<<>>}
    ELSE LET shorter == SeqsUpTo(S, n - 1)
         IN  shorter \cup {Append(s, x) : s \in {q \in shorter : Len(q) = n - 1}, x \in S}

Range(s) == {s[i] : i \in 1..Len(s)}

IndexPermutations(n) ==
    {f \in [1..n -> 1..n] : \A i, j \in 1..n : f[i] = f[j] => i = j}

Permuted(d, f) == [i \in 1..Len(d) |-> d[f[i]]]

-----------------------------------------------------------------------------
(* Dates *)

DateAt(n) == [k |-> "date", t |-> n]

InvalidDate == [k |-> "invalid", t |-> 0]

NullDate == [k |-> "null", t |-> 0]

\* new Date(x): a Date is copied, an Invalid Date stays invalid, null is the epoch
\* (which lies before every year of the model: kept as an out-of-range instant).
NewDate(x) == IF x.k = "null" THEN DateAt(-2) ELSE x

\* Date.prototype.getFullYear: NaN for an Invalid Date.
GetFullYear(d) ==
    IF d.k # "date" THEN [nan |-> TRUE, v |-> 0]
    ELSE LET day == d.t \div 2
         IN  [nan |-> FALSE,
              v |-> IF day < 0 THEN 1970
                    ELSE IF day < 365 THEN 2023
                    ELSE IF day < 731 THEN 2024
                    ELSE 2025]

\* x === n for a number x that may be NaN
StrictEqNum(x, n) == ~x.nan /\ x.v = n

\* date-fns startOfDay / endOfDay: first and last instant of the day of d
startOfDay(d) == IF d.k = "date" THEN DateAt(d.t - (d.t % 2)) ELSE InvalidDate

endOfDay(d) == IF d.k = "date" THEN DateAt(d.t - (d.t % 2) + 1) ELSE InvalidDate

\* date-fns isWithinInterval(date, {start, end}) for start <= end:
\* time >= startTime && time <= endTime, false for an Invalid Date.
isWithinInterval(d, start, end) ==
    /\ d.k = "date" /\ start.k = "date" /\ end.k = "date"
    /\ d.t >= start.t
    /\ d.t <= end.t

\* date-fns differenceInDays(left, right): full days, truncated toward zero;
\* NaN (no number) when either date is invalid.
differenceInDays(left, right) ==
    IF left.k # "date" \/ right.k # "date" THEN [nan |-> TRUE, v |-> 0]
    ELSE LET diff == left.t - right.t
         IN  [nan |-> FALSE,
              v |-> IF diff >= 0 THEN diff \div 2 ELSE -((-diff) \div 2)]

\* JavaScript truthiness of a Date-or-null field
Truthy(d) == d.k # "null"

-----------------------------------------------------------------------------
(* BookingData *)

\* A totalPrice or commission as it arrives: a number, a string, or nothing
NumberValue(n) == [type |-> "number", num |-> n, text |-> <<>>]

StringValue(chars) == [type |-> "string", num |-> 0, text |-> chars]

UndefinedValue == [type |-> "undefined", num |-> 0, text |-> <<>>]

BookingOf(name, city, region, booked, arrival, departure, price, comm, cancelled) ==
    [serviceName |-> name, serviceCity |-> city, region |-> region,
     bookingDate |-> booked, arrivalDate |-> arrival, departureDate |-> departure,
     totalPrice |-> price, commission |-> comm, cancelled |-> cancelled]

\* A record whose totalPrice and commission are of type number
Booking(name, city, region, booked, arrival, departure, price, comm, cancelled) ==
    BookingOf(name, city, region, booked, arrival, departure,
              NumberValue(price), NumberValue(comm), cancelled)

AllRegions == "Alle Regionen"

Regions == {"Nord", "Sued"}

Years == {2023, 2024}

LayoutBooking(region, arrival) ==
    Booking("A", "Ort", region, arrival, arrival,
            IF arrival.k = "date" THEN DateAt(arrival.t + 4) ELSE arrival,
            1, 1, region = "Sued")

\* The records an upload is made of in Spec: two nights each, cancelled in the south.
LayoutBookings ==
    {LayoutBooking("Nord", DateAt(729)), LayoutBooking("Sued", DateAt(729)),
     LayoutBooking("Sued", DateAt(730)), LayoutBooking("Nord", InvalidDate)}

\* What the free identifier dateRange can stand for: nothing (unbound), or an object
\* with start and end, each null or a date, start not after end.
DateRanges ==
    {[start |-> NullDate, end |-> NullDate],
     [start |-> DateAt(729), end |-> NullDate],
     [start |-> DateAt(729), end |-> DateAt(729)]}

-----------------------------------------------------------------------------
(* DashboardLayout: the record filter *)

\* The callback of data.filter in year mode, lines 35-45 and 75-85.  Nothing in the
\* try block throws for a record object, so the catch branch is never taken.
YearFilterPass(booking, year, region) ==
    LET bookingYear == GetFullYear(NewDate(booking.arrivalDate))
        matchesYear == StrictEqNum(bookingYear, year)
        matchesRegion == (region = "") \/ booking.region = region
    IN  [keep |-> matchesYear /\ matchesRegion, threw |-> FALSE]

\* The callback of data.filter in date mode, lines 47-69.  Reading an unbound
\* dateRange would throw inside the try, drop the record and log the error; the
\* render does not get that far (see Init).
DateFilterPass(booking, range, region) ==
    IF ~IsDefined(range) THEN [keep |-> FALSE, threw |-> TRUE]
    ELSE LET dr == range[1]
             isInDateRange ==
                 IF Truthy(dr.start) /\ Truthy(dr.end)
                 THEN isWithinInterval(NewDate(booking.arrivalDate),
                                       startOfDay(dr.start), endOfDay(dr.end))
                 ELSE TRUE
             isInRegion == IF region # "" THEN booking.region = region ELSE TRUE
         IN  [keep |-> isInDateRange /\ isInRegion, threw |-> FALSE]

\* Array.prototype.filter with a callback that also counts its console.error calls
RECURSIVE FilterFrom(_, _, _)
FilterFrom(pass, i, acc) ==
    IF i > Len(pass) THEN acc
    ELSE FilterFrom(pass, i + 1,
                    [value |-> IF pass[i].keep THEN Append(acc.value, pass[i].b)
                               ELSE acc.value,
                     errors |-> acc.errors + (IF pass[i].threw THEN 1 ELSE 0)])

\* const filteredData = useMemo(...), lines 33-71
FilteredData(d, yearMode, year1, range, region) ==
    LET pass == [i \in 1..Len(d) |->
                    LET r == IF yearMode THEN YearFilterPass(d[i], year1, region)
                             ELSE DateFilterPass(d[i], range, region)
                    IN  [b |-> d[i], keep |-> r.keep, threw |-> r.threw]]
    IN  FilterFrom(pass, 1, [value |-> <<>>, errors |-> 0])

\* const comparisonData = useMemo(...), lines 73-86
ComparisonData(d, yearMode, year2, region) ==
    IF ~yearMode THEN [value |-> Undefined, errors |-> 0]
    ELSE LET pass == [i \in 1..Len(d) |->
                         LET r == YearFilterPass(d[i], year2, region)
                         IN  [b |-> d[i], keep |-> r.keep, threw |-> r.threw]]
             out == FilterFrom(pass, 1, [value |-> <<>>, errors |-> 0])
         IN  [value |-> Some(out.value), errors |-> out.errors]

-----------------------------------------------------------------------------
(* JavaScript numbers *)

RECURSIVE Pow2(_)
Pow2(n) == IF n = 0 THEN 1 ELSE 2 * Pow2(n - 1)

\* The spacing of the representable values around x >= 0
RECURSIVE UlpFrom(_, _)
UlpFrom(x, u) == IF x < Pow2(MantBits) * u THEN u ELSE UlpFrom(x, 2 * u)

\* Round x >= 0 to MantBits significant bits: to nearest, ties to even
RoundNat(x) ==
    LET u == UlpFrom(x, 1)
        q == x \div u
        r == x % u
    IN  IF 2 * r < u THEN q * u
        ELSE IF 2 * r > u THEN (q + 1) * u
        ELSE IF q % 2 = 0 THEN q * u
        ELSE (q + 1) * u

RoundFloat(x) == IF x >= 0 THEN RoundNat(x) ELSE -RoundNat(-x)

\* NaN as a number: below every amount and every difference of amounts
NotANumber == -1000000

\* FAdd that drops the running total: `revenue: finalPrice`
FAddOverwrites(a, b) == IF b = NotANumber THEN NotANumber ELSE RoundFloat(b)

\* a + b and a - b on numbers: NaN when an operand is NaN
FAdd(a, b) ==
    IF a = NotANumber \/ b = NotANumber THEN NotANumber ELSE RoundFloat(a + b)

FSub(a, b) ==
    IF a = NotANumber \/ b = NotANumber THEN NotANumber ELSE RoundFloat(a - b)

\* The result of a division, or undefined.  A finite quotient is kept as the
\* fraction n/d with d > 0.
Finite(n, d) == [k |-> "fin", n |-> n, d |-> d]

NaN == [k |-> "NaN", n |-> 0, d |-> 1]

PosInfinity == [k |-> "Infinity", n |-> 0, d |-> 1]

NegInfinity == [k |-> "-Infinity", n |-> 0, d |-> 1]

Unset == [k |-> "undefined", n |-> 0, d |-> 1]

\* a / b for numbers a and b >= 0: division by zero gives an infinity, 0 / 0 NaN,
\* and so does a NaN operand
FDiv(a, b) ==
    IF a = NotANumber \/ b = NotANumber THEN NaN
    ELSE IF b # 0 THEN Finite(a, b)
    ELSE IF a > 0 THEN PosInfinity
    ELSE IF a < 0 THEN NegInfinity
    ELSE NaN

\* x - y for two finite fractions
FracSub(x, y) == Finite(x.n * y.d - y.n * x.d, x.d * y.d)

\* Equality of two division results as numbers
SameNumber(x, y) ==
    IF x.k = "fin" /\ y.k = "fin" THEN x.n * y.d = y.n * x.d
    ELSE x.k = y.k /\ x.k \in {"Infinity", "-Infinity"}

-----------------------------------------------------------------------------
(* TopAccommodationsTable: calculateStats *)

Unbekannt == "Unbekannt"

\* a || 'Unbekannt' for a string a
OrUnbekannt(a) == IF a = "" THEN Unbekannt ELSE a

\* NightsCount without line 71: a negative difference is kept
NightsCountUnclamped(booking) ==
    IF Truthy(booking.arrivalDate) /\ Truthy(booking.departureDate)
    THEN LET n == differenceInDays(booking.departureDate, booking.arrivalDate)
         IN  IF n.nan THEN 0 ELSE n.v
    ELSE 0

\* lines 63-77: the nights of a booking
NightsCount(booking) ==
    IF Truthy(booking.arrivalDate) /\ Truthy(booking.departureDate)
    THEN LET n == differenceInDays(booking.departureDate, booking.arrivalDate)
         IN  IF ~n.nan /\ n.v > 0 THEN n.v ELSE 0
    ELSE 0

\* Map.prototype.get: the index of the entry with this key, 0 when absent
IndexOfKey(stats, key) ==
    IF \E i \in 1..Len(stats) : stats[i].name = key
    THEN CHOOSE i \in 1..Len(stats) : stats[i].name = key
    ELSE 0

\* ZeroIfCancelled without the test of the flag
KeepIfCancelled(booking, x) == x

\* lines 83-86: booking.cancelled ? 0 : x
ZeroIfCancelled(booking, x) == IF booking.cancelled THEN 0 ELSE x

\* The decimal digits; the texts of the model are made of digits, blanks, letters
\* and commas (no sign, decimal point or exponent).
Digits == <<"0", "1", "2", "3", "4", "5", "6", "7", "8", "9">>

IsDigit(c) == \E i \in 1..Len(Digits) : Digits[i] = c

DigitValue(c) == (CHOOSE i \in 1..Len(Digits) : Digits[i] = c) - 1

\* The number of blanks in front of the first other character
LeadingBlanks(chars) ==
    Cardinality({i \in 1..Len(chars) : \A j \in 1..i : chars[j] = " "})

\* The number of digits that follow the first `from` characters without a gap
DigitRun(chars, from) ==
    Cardinality({i \in (from + 1)..Len(chars) :
                    \A j \in (from + 1)..i : IsDigit(chars[j])})

\* The value of the n decimal digits behind the first `from` characters
RECURSIVE DecimalValue(_, _, _)
DecimalValue(chars, from, n) ==
    IF n = 0 THEN 0
    ELSE 10 * DecimalValue(chars, from, n - 1) + DigitValue(chars[from + n])

\* parseFloat(string): leading white space is skipped, the longest prefix that is
\* a decimal literal is converted to the nearest number, what follows it is
\* ignored; NaN when there is no such prefix.
parseFloat(chars) ==
    LET from == LeadingBlanks(chars)
        n == DigitRun(chars, from)
    IN  IF n = 0 THEN NotANumber ELSE RoundFloat(DecimalValue(chars, from, n))

\* x || '0' for an x that is not of type number: '' and undefined are falsy
OrZeroText(x) == IF x.type = "string" /\ x.text # <<>> THEN x.text ELSE <<"0">>

\* lines 79-80: typeof x === 'number' ? x : parseFloat(x || '0')
NumberOrParsed(x) == IF x.type = "number" THEN x.num ELSE parseFloat(OrZeroText(x))

\* lines 50-96: one round of bookings.forEach.  The counts and the nights are
\* integers far below 2^53 and are added exactly.
AddBooking(stats, booking) ==
    LET name == OrUnbekannt(booking.serviceName)
        at == IndexOfKey(stats, name)
        current == IF at # 0 THEN stats[at]
                   ELSE [name |-> name,
                         city |-> OrUnbekannt(booking.serviceCity),
                         revenue |-> 0, bookings |-> 0, commission |-> 0,
                         cancelledBookings |-> 0, nights |-> 0]
        nightsCount == NightsCount(booking)
        price == NumberOrParsed(booking.totalPrice)
        commission == NumberOrParsed(booking.commission)
        finalPrice == ZeroIfCancelled(booking, price)
        finalCommission == ZeroIfCancelled(booking, commission)
        finalNights == ZeroIfCancelled(booking, nightsCount)
        next == [current EXCEPT
                    !.revenue = FAdd(current.revenue, finalPrice),
                    !.bookings = current.bookings + 1,
                    !.commission = FAdd(current.commission, finalCommission),
                    !.cancelledBookings =
                        current.cancelledBookings + (IF booking.cancelled THEN 1 ELSE 0),
                    !.nights = current.nights + finalNights]
    IN  IF at # 0 THEN [stats EXCEPT ![at] = next] ELSE Append(stats, next)

\* bookings.forEach: the Map after round i is built before round i + 1 begins
RECURSIVE ForEachBooking(_, _, _)
ForEachBooking(bookings, i, stats) ==
    IF i > Len(bookings) THEN stats
    ELSE CHOOSE result \in {ForEachBooking(bookings, i + 1, next) :
                            next \in {AddBooking(stats, bookings[i])}} : TRUE

\* lines 39-99: Array.from(stats.values()), in insertion order
calculateStats(bookings) == ForEachBooking(bookings, 1, <<>>)

-----------------------------------------------------------------------------
(* TopAccommodationsTable: comparison, ranking, top 30 *)

TopN == 30

\* comparisonStats.find(comp => comp.name === current.name)
Find(stats, name) ==
    LET at == IndexOfKey(stats, name)
    IN  IF at = 0 THEN Undefined ELSE Some(stats[at])

\* RelativeChange with the current value as the base of the ratio
RelativeChangeOverCurrent(found, cur, prior) ==
    IF found THEN FDiv(FSub(cur, prior), cur) ELSE Unset

\* comparison ? ((current.m - comparison.m) / comparison.m) : undefined
RelativeChange(found, cur, prior) ==
    IF found THEN FDiv(FSub(cur, prior), prior) ELSE Unset

\* lines 105-117: the callback of currentStats.map
WithChanges(current, cmpStats) ==
    LET comparison == Find(cmpStats, current.name)
        found == IsDefined(comparison)
        comp == IF found THEN comparison[1] ELSE current
    IN  [name |-> current.name, city |-> current.city,
         revenue |-> current.revenue, bookings |-> current.bookings,
         commission |-> current.commission,
         cancelledBookings |-> current.cancelledBookings,
         nights |-> current.nights,
         revenueChange |-> RelativeChange(found, current.revenue, comp.revenue),
         bookingsChange |-> RelativeChange(found, current.bookings, comp.bookings),
         commissionChange |-> RelativeChange(found, current.commission, comp.commission),
         cancellationRateChange |->
             IF found
             THEN FracSub(FDiv(current.cancelledBookings, current.bookings),
                          FDiv(comp.cancelledBookings, comp.bookings))
             ELSE Unset,
         nightsChange |-> RelativeChange(found, current.nights, comp.nights)]

\* A bucket of the prior period as an entry of the output, no change set
PriorOnly(comp) ==
    [name |-> comp.name, city |-> comp.city,
     revenue |-> comp.revenue, bookings |-> comp.bookings,
     commission |-> comp.commission,
     cancelledBookings |-> comp.cancelledBookings,
     nights |-> comp.nights,
     revenueChange |-> Unset, bookingsChange |-> Unset,
     commissionChange |-> Unset, cancellationRateChange |-> Unset,
     nightsChange |-> Unset]

\* Compared as a full outer join: the buckets that only the prior period has
\* are listed behind those of the current period
ComparedOuterJoin(cur, cmpStats) ==
    LET Missing(comp) == IndexOfKey(cur, comp.name) = 0
        rest == SelectSeq(cmpStats, Missing)
    IN  [i \in 1..Len(cur) |-> WithChanges(cur[i], cmpStats)]
        \o [i \in 1..Len(rest) |-> PriorOnly(rest[i])]

\* lines 105-117: currentStats.map(current => ...)
Compared(cur, cmpStats) ==
    [i \in 1..Len(cur) |-> WithChanges(cur[i], cmpStats)]

\* The comparator of line 118, (a, b) => b.revenue - a.revenue
CompareRevenue(a, b) == FSub(b.revenue, a.revenue)

\* Array.prototype.sort is stable: an element goes in front of the first element
\* that the comparator orders after it, behind all the others.
InsertSorted(sorted, x) ==
    LET after == {i \in 1..Len(sorted) : CompareRevenue(sorted[i], x) > 0}
        at == IF after = {} THEN Len(sorted) + 1
              ELSE CHOOSE i \in after : \A j \in after : i <= j
    IN  SubSeq(sorted, 1, at - 1) \o <<x>> \o SubSeq(sorted, at, Len(sorted))

RECURSIVE SortFrom(_, _, _)
SortFrom(s, i, sorted) ==
    IF i > Len(s) THEN sorted
    ELSE CHOOSE result \in {SortFrom(s, i + 1, next) :
                            next \in {InsertSorted(sorted, s[i])}} : TRUE

SortByRevenue(s) == SortFrom(s, 1, <<>>)

\* Slice with the end index taken as inclusive
SliceOneMore(s) == SubSeq(s, 1, Min(TopN + 1, Len(s)))

\* .slice(0, 30)
Slice(s) == SubSeq(s, 1, Min(TopN, Len(s)))

\* b.revenue - a.revenue is NaN when a revenue is NaN, and sort takes NaN as 0
HasNaNRevenue(s) == \E i \in 1..Len(s) : s[i].revenue = NotANumber

\* lines 101-102
CurrentStats(d) == calculateStats(d)

ComparisonStats(cmp) == IF IsDefined(cmp) THEN calculateStats(cmp[1]) ELSE <<>>

\* lines 105-118, for revenues that are numbers other than NaN
Ranked(cur, cmpStats) ==
    Slice(SortByRevenue(Compared(cur, cmpStats)))

\* lines 105-118.  With a NaN revenue the comparator is not a consistent
\* comparator (NaN ties with everything), and the order that sort leaves is
\* implementation-defined: any order can come out.
RankedOutcomes(cur, cmpStats) ==
    LET mapped == Compared(cur, cmpStats)
    IN  IF HasNaNRevenue(mapped)
        THEN {Slice(Permuted(mapped, f)) : f \in IndexPermutations(Len(mapped))}
        ELSE {Ranked(cur, cmpStats)}

-----------------------------------------------------------------------------
(* CancellationRateChart: the monthly buckets *)

\* The first day of each month, counted from the first day of the year
MonthStarts(leap) ==
    <<0, 31, 59 + leap, 90 + leap, 120 + leap, 151 + leap, 181 + leap,
      212 + leap, 243 + leap, 273 + leap, 304 + leap, 334 + leap>>

\* format(date, 'yyyy-MM') of a valid date from 2023 to 2025, as the number yyyyMM:
\* the order of these numbers is the order of the strings.
MonthKey(d) ==
    LET day == d.t \div 2
        year == GetFullYear(d).v
        dayOfYear == IF year = 2023 THEN day
                     ELSE IF year = 2024 THEN day - 365
                     ELSE day - 731
        starts == MonthStarts(IF year = 2024 THEN 1 ELSE 0)
        month == Cardinality({m \in 1..12 : starts[m] <= dayOfYear})
    IN  year * 100 + month

\* bookingDate >= startDate && bookingDate <= endDate: false when a date is invalid
InChartRange(d, from, to) ==
    /\ d.k = "date" /\ from.k = "date" /\ to.k = "date"
    /\ d.t >= from.t
    /\ d.t <= to.t

IndexOfMonth(months, key) ==
    IF \E i \in 1..Len(months) : months[i].key = key
    THEN CHOOSE i \in 1..Len(months) : months[i].key = key
    ELSE 0

\* lines 44-57: one round of data.forEach
AddToMonth(months, booking, from, to) ==
    LET bookingDate == NewDate(booking.bookingDate)
    IN  IF ~InChartRange(bookingDate, from, to) THEN months
        ELSE LET monthKey == MonthKey(bookingDate)
                 at == IndexOfMonth(months, monthKey)
                 current == IF at # 0 THEN months[at]
                            ELSE [key |-> monthKey, total |-> 0, cancelled |-> 0]
                 next == [current EXCEPT
                             !.total = current.total + 1,
                             !.cancelled = current.cancelled
                                           + (IF booking.cancelled THEN 1 ELSE 0)]
             IN  IF at # 0 THEN [months EXCEPT ![at] = next] ELSE Append(months, next)

RECURSIVE MonthlyFrom(_, _, _, _, _)
MonthlyFrom(d, i, months, from, to) ==
    IF i > Len(d) THEN months
    ELSE MonthlyFrom(d, i + 1, AddToMonth(months, d[i], from, to), from, to)

\* lines 42-57: the entries of monthlyData, in insertion order
MonthlyData(d, from, to) == MonthlyFrom(d, 1, <<>>, from, to)

-----------------------------------------------------------------------------
(* CommissionsChart: the monthly totals *)

\* Number::toString of NaN and of a whole number >= 0
RECURSIVE NumberToString(_)
NumberToString(n) ==
    IF n = NotANumber THEN <<"N", "a", "N">>
    ELSE IF n < 10 THEN <<Digits[n + 1]>>
    ELSE NumberToString(n \div 10) \o <<Digits[(n % 10) + 1]>>

\* ToString of a value
ToText(x) ==
    IF x.type = "string" THEN x.text
    ELSE IF x.type = "number" THEN NumberToString(x.num)
    ELSE <<"u", "n", "d", "e", "f", "i", "n", "e", "d">>

\* ToNumber of a value that is not a string: undefined is NaN
ToNumber(x) == IF x.type = "number" THEN x.num ELSE NotANumber

\* a + b: the concatenation when an operand is a string, else the sum
Plus(a, b) ==
    IF a.type = "string" \/ b.type = "string"
    THEN StringValue(ToText(a) \o ToText(b))
    ELSE NumberValue(FAdd(ToNumber(a), ToNumber(b)))

\* x || 0: 0, NaN, '' and undefined are falsy
OrZero(x) ==
    IF \/ x.type = "undefined"
       \/ x.type = "number" /\ x.num \in {0, NotANumber}
       \/ x.type = "string" /\ x.text = <<>>
    THEN NumberValue(0)
    ELSE x

\* lines 42-47: one round of data.forEach
AddCommission(months, booking, from, to) ==
    LET bookingDate == NewDate(booking.bookingDate)
    IN  IF ~InChartRange(bookingDate, from, to) THEN months
        ELSE LET monthKey == MonthKey(bookingDate)
                 at == IndexOfMonth(months, monthKey)
                 currentCommission ==
                     OrZero(IF at # 0 THEN months[at].commission ELSE UndefinedValue)
                 next == [key |-> monthKey,
                          commission |-> Plus(currentCommission, booking.commission)]
             IN  IF at # 0 THEN [months EXCEPT ![at] = next] ELSE Append(months, next)

RECURSIVE CommissionsFrom(_, _, _, _, _)
CommissionsFrom(d, i, months, from, to) ==
    IF i > Len(d) THEN months
    ELSE CommissionsFrom(d, i + 1, AddCommission(months, d[i], from, to), from, to)

\* lines 39-48: the entries of monthlyData, in insertion order
MonthlyCommissions(d, from, to) == CommissionsFrom(d, 1, <<>>, from, to)

\* line 51: Array.from(monthlyData.keys()).sort().  The keys are distinct and of
\* the form yyyy-MM, which sort as strings as they sort as numbers.
SortedMonths(months) ==
    LET keys == {months[i].key : i \in 1..Len(months)}
    IN  [i \in 1..Len(months) |->
            CHOOSE k \in keys : Cardinality({j \in keys : j < k}) = i - 1]

\* line 52: monthlyData.get(month)!
CommissionOf(months, month) == months[IndexOfMonth(months, month)].commission

\* lines 53-55: format(new Date(month), 'MMM yyyy').  new Date('yyyy-MM') is the
\* first instant of the month in UTC and format prints local time: west of
\* Greenwich that instant belongs to the month before.  The label is kept as the
\* number yyyyMM of the month it names.
MonthLabel(month, west) ==
    IF ~west THEN month
    ELSE IF month % 100 = 1 THEN month - 100 + 11
    ELSE month - 1

\* lines 37-67
ChartData(d, from, to, west) ==
    LET months == MonthlyCommissions(d, from, to)
        sortedMonths == SortedMonths(months)
    IN  [labels |-> [i \in 1..Len(sortedMonths) |-> MonthLabel(sortedMonths[i], west)],
         data |-> [i \in 1..Len(sortedMonths) |-> CommissionOf(months, sortedMonths[i])]]

NoChartData == [labels |-> <<>>, data |-> <<>>]

-----------------------------------------------------------------------------
(* Spec: DashboardLayout with the table it renders *)

SelectableRegions == {"", AllRegions} \cup Regions

Uploads == SeqsUpTo(LayoutBookings, MaxData)

NoConsole == [filtered |-> 0, comparison |-> 0]

\* useMemo(fn, deps): fn runs when a dependency changed, else the old value stays
UseMemo(old, fresh, depsChanged) == IF depsChanged THEN fresh ELSE old

\* The state after the first render.  The dependency array of line 71 reads
\* dateRange outside any try: with the identifier unbound the render throws and
\* nothing is mounted.
Init ==
    /\ data = <<>>
    /\ isYearComparison = FALSE
    /\ \E y \in Years : selectedYear1 = y /\ selectedYear2 = y - 1
    /\ selectedRegion = AllRegions
    /\ dateRange \in {Undefined} \cup {Some(r) : r \in DateRanges}
    /\ phase = IF IsDefined(dateRange) THEN "rendered" ELSE "crashed"
    /\ filteredData = <<>>
    /\ comparisonData = Undefined
    /\ console = NoConsole
    /\ currentStats = <<>>
    /\ comparisonStats = <<>>
    /\ accommodationStats = <<>>
    /\ startDate = InvalidDate
    /\ endDate = InvalidDate
    /\ monthlyData = <<>>
    /\ chartData = NoChartData

\* FilterDepsChanged with selectedRegion left out of the dependency array
FilterDepsChangedWithoutRegion(d, yearMode, y1, region) ==
    <<d, yearMode, y1, dateRange>>
    # <<data, isYearComparison, selectedYear1, dateRange>>

\* line 71: [data, isYearComparison, selectedYear1, dateRange, selectedRegion]
\* differs from what it was at the last render
FilterDepsChanged(d, yearMode, y1, region) ==
    <<d, yearMode, y1, dateRange, region>>
    # <<data, isYearComparison, selectedYear1, dateRange, selectedRegion>>

\* line 86: [data, selectedYear2, isYearComparison, selectedRegion]
ComparisonDepsChanged(d, y2, yearMode, region) ==
    <<d, y2, yearMode, region>>
    # <<data, selectedYear2, isYearComparison, selectedRegion>>

\* A state update followed by the render it causes, lines 33-86 of the layout and
\* lines 38-119 of the table.  The table's dependencies, line 119, are the two
\* arrays it is given: a memo of the layout that runs again returns a new array.
Rerender(d, yearMode, y1, y2, region) ==
    LET filterDeps == FilterDepsChanged(d, yearMode, y1, region)
        cmpDeps == ComparisonDepsChanged(d, y2, yearMode, region)
        f == UseMemo([value |-> filteredData, errors |-> console.filtered],
                     FilteredData(d, yearMode, y1, dateRange, region), filterDeps)
        c == UseMemo([value |-> comparisonData, errors |-> console.comparison],
                     ComparisonData(d, yearMode, y2, region), cmpDeps)
        tableDeps == filterDeps \/ cmpDeps
        cur == UseMemo(currentStats, CurrentStats(f.value), tableDeps)
        cmp == UseMemo(comparisonStats, ComparisonStats(c.value), tableDeps)
    IN  /\ phase = "rendered"
        /\ data' = d
        /\ isYearComparison' = yearMode
        /\ selectedYear1' = y1
        /\ selectedYear2' = y2
        /\ selectedRegion' = region
        /\ filteredData' = f.value
        /\ comparisonData' = c.value
        /\ console' = [filtered |-> f.errors, comparison |-> c.errors]
        /\ currentStats' = cur
        /\ comparisonStats' = cmp
        /\ \E ranked \in RankedOutcomes(cur, cmp) :
               accommodationStats' = UseMemo(accommodationStats, ranked, tableDeps)
        /\ UNCHANGED <<dateRange, phase, startDate, endDate, monthlyData, chartData>>

\* <CSVUploader onDataLoaded={setData} />
SetData(d) ==
    Rerender(d, isYearComparison, selectedYear1, selectedYear2, selectedRegion)

\* <FilterToggle onToggle={setIsYearComparison} />
SetIsYearComparison(b) ==
    Rerender(data, b, selectedYear1, selectedYear2, selectedRegion)

\* <YearComparisonPicker onYearChange=... />, mounted in year mode only
OnYearChange(y1, y2) ==
    /\ isYearComparison
    /\ Rerender(data, isYearComparison, y1, y2, selectedRegion)

\* <DateRangePicker onRegionChange={setSelectedRegion} />, mounted in date mode only
SetSelectedRegion(region) ==
    /\ ~isYearComparison
    /\ Rerender(data, isYearComparison, selectedYear1, selectedYear2, region)

Next ==
    \/ \E d \in Uploads : SetData(d)
    \/ \E b \in BOOLEAN : SetIsYearComparison(b)
    \/ \E y1 \in Years, y2 \in Years : OnYearChange(y1, y2)
    \/ \E region \in SelectableRegions : SetSelectedRegion(region)

Spec == Init /\ [][Next]_vars

-----------------------------------------------------------------------------
(* SpecStats: TopAccommodationsTable and CancellationRateChart over any input *)

\* 2024-01-15, 2024-02-10 and 2023-12-31 12:00 as booking dates; the stays are of
\* two and a half days, of minus one and a half days, of one and of two days.
StatsBookings ==
    {Booking("A", "X", "Nord", DateAt(758), DateAt(730), DateAt(735), 1, 1, FALSE),
     Booking("A", "Y", "Nord", DateAt(758), DateAt(730), DateAt(727),
             Pow2(MantBits), 0, FALSE),
     Booking("A", "X", "Nord", DateAt(758), DateAt(730), DateAt(732), 1, 1, TRUE),
     Booking("B", "Y", "Sued", DateAt(810), DateAt(730), NullDate,
             1, Pow2(MantBits), FALSE),
     Booking("B", "Y", "Sued", DateAt(729), DateAt(730), DateAt(734),
             Pow2(MantBits), 1, TRUE),
     Booking("", "", "Sued", InvalidDate, InvalidDate, DateAt(734), 1, 1, FALSE),
     Booking(Unbekannt, "X", "Nord", DateAt(758), DateAt(730), DateAt(732),
             0, 0, FALSE)}

\* The chart from 2023-12-31 00:00 to 2024-01-31 12:00 or to 2024-02-29 12:00
ChartEnds == {DateAt(791), DateAt(849)}

TableRendered == phase \in {"table", "rendered"}

InitStats ==
    /\ data = <<>>
    /\ isYearComparison = FALSE
    /\ selectedYear1 = 2024
    /\ selectedYear2 = 2023
    /\ selectedRegion = AllRegions
    /\ dateRange = Undefined
    /\ console = NoConsole
    /\ phase = "props"
    /\ filteredData \in SeqsUpTo(StatsBookings, MaxLen)
    /\ comparisonData = Undefined
    /\ currentStats = <<>>
    /\ comparisonStats = <<>>
    /\ accommodationStats = <<>>
    /\ startDate = DateAt(728)
    /\ endDate \in ChartEnds
    /\ monthlyData = <<>>
    /\ chartData = NoChartData

\* TopAccommodationsTable, lines 38-119, on the props data and comparisonData
RenderTable ==
    /\ phase = "props"
    /\ phase' = "table"
    /\ currentStats' = CurrentStats(filteredData)
    /\ comparisonStats' = ComparisonStats(comparisonData)
    /\ accommodationStats' \in RankedOutcomes(currentStats', comparisonStats')
    /\ UNCHANGED <<layoutVars, filteredData, comparisonData, chartVars>>

\* CancellationRateChart, lines 40-57, on the props data, startDate and endDate
RenderChart ==
    /\ phase = "table"
    /\ phase' = "rendered"
    /\ monthlyData' = MonthlyData(filteredData, startDate, endDate)
    /\ UNCHANGED <<layoutVars, filteredData, comparisonData, currentStats,
                   comparisonStats, accommodationStats, startDate, endDate,
                   chartData>>

NextStats == RenderTable \/ RenderChart

SpecStats == InitStats /\ [][NextStats]_vars

-----------------------------------------------------------------------------
(* SpecCompare: TopAccommodationsTable over a current and a prior period *)

\* Per name: 3 / 1 for one night, 2 / 0 for a stay without a night, and a
\* cancelled booking.
CmpBookings ==
    UNION {{Booking(n, "Ort", "Nord", DateAt(758), DateAt(730), DateAt(732), 3, 1, FALSE),
            Booking(n, "Ort", "Nord", DateAt(758), DateAt(730), DateAt(730), 2, 0, FALSE),
            Booking(n, "Ort", "Nord", DateAt(758), DateAt(730), DateAt(732), 1, 1, TRUE)}
           : n \in {"A", "B"}}

\* Periods with about TopN accommodations, one booking each: the revenues cycle
\* through 2, 3, 1, are all 2, or are 3 behind the first TopN and 1 before.
LongPrice(pattern, i) ==
    IF pattern = "cycle" THEN (i % 3) + 1
    ELSE IF pattern = "flat" THEN 2
    ELSE IF i > TopN THEN 3 ELSE 1

LongData ==
    {[i \in 1..n |->
         Booking(ToString(i), "Ort", "Nord", DateAt(758), DateAt(730), DateAt(732),
                 LongPrice(pattern, i), 1, FALSE)]
     : n \in (TopN - 1)..(TopN + 2), pattern \in {"cycle", "flat", "tail"}}

Periods == SeqsUpTo(CmpBookings, MaxCmpLen)

InitCompare ==
    /\ data = <<>>
    /\ isYearComparison = TRUE
    /\ selectedYear1 = 2024
    /\ selectedYear2 = 2023
    /\ selectedRegion = ""
    /\ dateRange = Undefined
    /\ console = NoConsole
    /\ phase = "props"
    /\ filteredData \in Periods \cup LongData
    /\ comparisonData \in {Undefined} \cup {Some(p) : p \in Periods}
    /\ currentStats = <<>>
    /\ comparisonStats = <<>>
    /\ accommodationStats = <<>>
    /\ startDate = InvalidDate
    /\ endDate = InvalidDate
    /\ monthlyData = <<>>
    /\ chartData = NoChartData

NextCompare == RenderTable

SpecCompare == InitCompare /\ [][NextCompare]_vars

-----------------------------------------------------------------------------
(* SpecCoerce: TopAccommodationsTable over amounts that arrive as text *)

CoerceBooking(name, price, comm, cancelled) ==
    BookingOf(name, "Ort", "Nord", DateAt(758), DateAt(730), DateAt(732),
              price, comm, cancelled)

\* Amounts 'abc', ' 3a', '2,5', '12', '2', 'x', '' and a missing one, next to
\* amounts of type number
CoerceBookings ==
    {CoerceBooking("A", NumberValue(1), NumberValue(1), FALSE),
     CoerceBooking("A", StringValue(<<"a", "b", "c">>), StringValue(<<"2">>), FALSE),
     CoerceBooking("A", StringValue(<<" ", "3", "a">>), StringValue(<<"x">>), FALSE),
     CoerceBooking("A", StringValue(<<"a", "b", "c">>), StringValue(<<"x">>), TRUE),
     CoerceBooking("B", StringValue(<<>>), UndefinedValue, FALSE),
     CoerceBooking("B", StringValue(<<"1", "2">>), NumberValue(1), FALSE),
     CoerceBooking("B", StringValue(<<"2", ",", "5">>), StringValue(<<"2">>), FALSE)}

InitCoerce ==
    /\ data = <<>>
    /\ isYearComparison = FALSE
    /\ selectedYear1 = 2024
    /\ selectedYear2 = 2023
    /\ selectedRegion = ""
    /\ dateRange = Undefined
    /\ console = NoConsole
    /\ phase = "props"
    /\ filteredData \in SeqsUpTo(CoerceBookings, MaxLen)
    /\ comparisonData = Undefined
    /\ currentStats = <<>>
    /\ comparisonStats = <<>>
    /\ accommodationStats = <<>>
    /\ startDate = InvalidDate
    /\ endDate = InvalidDate
    /\ monthlyData = <<>>
    /\ chartData = NoChartData

NextCoerce == RenderTable

SpecCoerce == InitCoerce /\ [][NextCoerce]_vars

-----------------------------------------------------------------------------
(* SpecCommissions: CommissionsChart over any input *)

CommissionBooking(booked, comm, cancelled) ==
    BookingOf("A", "Ort", "Nord", booked, DateAt(730), DateAt(732),
              NumberValue(1), comm, cancelled)

\* Bookings of 2024-01-15, 2024-02-10, 2023-12-31 12:00 and 2023-12-30, one
\* without a valid booking date, one whose commission is the string '2'
CommissionBookings ==
    {CommissionBooking(DateAt(758), NumberValue(1), FALSE),
     CommissionBooking(DateAt(758), NumberValue(2), TRUE),
     CommissionBooking(DateAt(810), NumberValue(Pow2(MantBits)), FALSE),
     CommissionBooking(DateAt(729), NumberValue(3), TRUE),
     CommissionBooking(DateAt(729), NumberValue(0), FALSE),
     CommissionBooking(DateAt(726), NumberValue(1), FALSE),
     CommissionBooking(InvalidDate, NumberValue(1), FALSE),
     CommissionBooking(DateAt(758), StringValue(<<"2">>), FALSE)}

InitCommissions ==
    /\ data = <<>>
    /\ isYearComparison = FALSE
    /\ selectedYear1 = 2024
    /\ selectedYear2 = 2023
    /\ selectedRegion = ""
    /\ dateRange = Undefined
    /\ console = NoConsole
    /\ phase = "props"
    /\ filteredData \in SeqsUpTo(CommissionBookings, MaxLen)
    /\ comparisonData = Undefined
    /\ currentStats = <<>>
    /\ comparisonStats = <<>>
    /\ accommodationStats = <<>>
    /\ startDate = DateAt(728)
    /\ endDate \in ChartEnds
    /\ monthlyData = <<>>
    /\ chartData = NoChartData

\* CommissionsChart, lines 37-67, on the props data, startDate and endDate, in a
\* time zone west of Greenwich or not
RenderCommissions ==
    /\ phase = "props"
    /\ phase' = "commissions"
    /\ \E west \in BOOLEAN :
           chartData' = ChartData(filteredData, startDate, endDate, west)
    /\ UNCHANGED <<layoutVars, filteredData, comparisonData, currentStats,
                   comparisonStats, accommodationStats, startDate, endDate,
                   monthlyData>>

NextCommissions == RenderCommissions

SpecCommissions == InitCommissions /\ [][NextCommissions]_vars

-----------------------------------------------------------------------------
(* Reference definitions used by the properties *)

NameOf(b) == OrUnbekannt(b.serviceName)

RecordsNamed(d, n) ==
    LET Test(b) == NameOf(b) = n
    IN  SelectSeq(d, Test)

\* The records of d that count toward the sums
Active(d) ==
    LET Test(b) == ~b.cancelled
    IN  SelectSeq(d, Test)

\* The sum of a sequence of numbers, added from left to right
RECURSIVE SumLeft(_)
SumLeft(xs) ==
    IF xs = <<>> THEN 0
    ELSE RoundFloat(SumLeft(SubSeq(xs, 1, Len(xs) - 1)) + xs[Len(xs)])

\* The exact sum of a sequence of integers
RECURSIVE SumExact(_)
SumExact(xs) == IF xs = <<>> THEN 0 ELSE xs[1] + SumExact(Tail(xs))

\* max(0, whole days from arrivalDate to departureDate); no night without two dates
WholeNights(b) ==
    IF b.arrivalDate.k = "date" /\ b.departureDate.k = "date"
       /\ b.departureDate.t >= b.arrivalDate.t
    THEN (b.departureDate.t - b.arrivalDate.t) \div 2
    ELSE 0

\* The amounts of records whose amounts are of type number
Prices(d) == [i \in 1..Len(d) |-> d[i].totalPrice.num]

Commissions(d) == [i \in 1..Len(d) |-> d[i].commission.num]

Nights(d) == [i \in 1..Len(d) |-> WholeNights(d[i])]

\* The bucket that the claims describe for the name n over the records d
BucketAsSpecified(d, n) ==
    LET recs == RecordsNamed(d, n)
    IN  [name |-> n,
         bookings |-> Len(recs),
         cancelledBookings |-> Len(recs) - Len(Active(recs)),
         revenue |-> SumLeft(Prices(Active(recs))),
         commission |-> SumLeft(Commissions(Active(recs))),
         nights |-> SumExact(Nights(Active(recs)))]

\* A bucket of calculateStats without its city
Sums(b) ==
    [name |-> b.name, bookings |-> b.bookings,
     cancelledBookings |-> b.cancelledBookings, revenue |-> b.revenue,
     commission |-> b.commission, nights |-> b.nights]

NamesIn(d) == {NameOf(d[i]) : i \in 1..Len(d)}

-----------------------------------------------------------------------------
(* Properties of calculateStats, checked under SpecStats *)

\* C2: after calculateStats has run over the records, there is exactly one bucket
\* per accommodation name n, and it holds bookings = the number of records named
\* n, cancelledBookings = the number of cancelled ones among them, and revenue,
\* commission and nights = the sums (added in input order) of totalPrice,
\* commission and max(0, whole days of the stay) over the records named n that
\* are not cancelled.
C2_BucketsAreTheSums ==
    TableRendered =>
        /\ Len(currentStats) = Cardinality(NamesIn(filteredData))
        /\ \A i \in 1..Len(currentStats) :
               /\ currentStats[i].name \in NamesIn(filteredData)
               /\ Sums(currentStats[i])
                  = BucketAsSpecified(filteredData, currentStats[i].name)

\* C2 witness: a name with one active and one cancelled booking of equal price has
\* been aggregated into bookings 2, cancelled 1 and the revenue of one booking.
C2_Witness ==
    /\ TableRendered
    /\ Len(filteredData) = 2
    /\ filteredData[1].serviceName = "A" /\ ~filteredData[1].cancelled
    /\ filteredData[2].serviceName = "A" /\ filteredData[2].cancelled
    /\ \E i \in 1..Len(currentStats) :
           /\ currentStats[i].name = "A"
           /\ currentStats[i].bookings = 2
           /\ currentStats[i].cancelledBookings = 1
           /\ currentStats[i].revenue = filteredData[1].totalPrice.num
           /\ currentStats[i].commission = filteredData[1].commission.num

\* C9: every bucket of calculateStats, over records with non-negative prices and
\* commissions, has cancelledBookings <= bookings, bookings >= 1 and revenue,
\* commission and nights >= 0; every monthly bucket of the cancellation-rate chart
\* has cancelled <= total.
C9_BucketBounds ==
    /\ TableRendered =>
           \A i \in 1..Len(currentStats) :
               /\ currentStats[i].cancelledBookings <= currentStats[i].bookings
               /\ currentStats[i].bookings >= 1
               /\ currentStats[i].revenue >= 0
               /\ currentStats[i].commission >= 0
               /\ currentStats[i].nights >= 0
    /\ phase = "rendered" =>
           \A i \in 1..Len(monthlyData) :
               monthlyData[i].cancelled <= monthlyData[i].total

\* C9 witness: the table and the chart have run over records that hold a stay
\* whose departure precedes its arrival; one bucket is partly cancelled, one
\* is cancelled as a whole, and a month holds a cancelled booking next to an
\* active one.
C9_Witness ==
    /\ phase = "rendered"
    /\ \E i \in 1..Len(filteredData) :
           /\ ~filteredData[i].cancelled
           /\ filteredData[i].departureDate.k = "date"
           /\ filteredData[i].arrivalDate.k = "date"
           /\ filteredData[i].departureDate.t < filteredData[i].arrivalDate.t
    /\ \E i \in 1..Len(currentStats) :
           /\ currentStats[i].cancelledBookings >= 1
           /\ currentStats[i].cancelledBookings < currentStats[i].bookings
    /\ \E i \in 1..Len(currentStats) :
           currentStats[i].cancelledBookings = currentStats[i].bookings
    /\ \E i \in 1..Len(monthlyData) :
           /\ monthlyData[i].cancelled >= 1
           /\ monthlyData[i].cancelled < monthlyData[i].total

SumsOf(stats) == {Sums(stats[i]) : i \in 1..Len(stats)}

CountsOf(stats) ==
    {[name |-> stats[i].name, bookings |-> stats[i].bookings,
      cancelledBookings |-> stats[i].cancelledBookings, nights |-> stats[i].nights]
     : i \in 1..Len(stats)}

RevenuesOf(stats, exact) ==
    {<<stats[i].name, stats[i].revenue>> :
        i \in {j \in 1..Len(stats) : stats[j].name \in exact}}

CommissionsOf(stats, exact) ==
    {<<stats[i].name, stats[i].commission>> :
        i \in {j \in 1..Len(stats) : stats[j].name \in exact}}

\* The names whose amounts add up without rounding in every order: whole amounts
\* with a total of at most 2^MantBits.
ExactRevenue(d) ==
    {n \in NamesIn(d) :
        SumExact(Prices(Active(RecordsNamed(d, n)))) <= Pow2(MantBits)}

ExactCommission(d) ==
    {n \in NamesIn(d) :
        SumExact(Commissions(Active(RecordsNamed(d, n)))) <= Pow2(MantBits)}

\* C10 as stated: for any record sequence and any permutation of it, calculateStats
\* yields for every accommodation name the same revenue, bookings, commission,
\* cancelledBookings and nights.
C10_OrderIndependent ==
    TableRendered =>
        \A f \in IndexPermutations(Len(filteredData)) :
            SumsOf(calculateStats(Permuted(filteredData, f))) = SumsOf(currentStats)

\* C10 amended: for any record sequence and any permutation of it, calculateStats
\* yields for every name the same bookings, cancelledBookings and nights, and the
\* same revenue (commission) for every name whose prices (commissions) add up
\* without rounding.
C10_OrderIndependentWhenExact ==
    TableRendered =>
        \A f \in IndexPermutations(Len(filteredData)) :
            LET permuted == calculateStats(Permuted(filteredData, f))
            IN  /\ CountsOf(permuted) = CountsOf(currentStats)
                /\ RevenuesOf(permuted, ExactRevenue(filteredData))
                   = RevenuesOf(currentStats, ExactRevenue(filteredData))
                /\ CommissionsOf(permuted, ExactCommission(filteredData))
                   = CommissionsOf(currentStats, ExactCommission(filteredData))

\* C10 witness: three records of one name have been aggregated, an active one, a
\* cancelled one and one that differs in its nights, with exact sums.
C10_Witness ==
    /\ TableRendered
    /\ Len(filteredData) = 3
    /\ Len(currentStats) = 1
    /\ filteredData[1] # filteredData[2]
    /\ filteredData[2] # filteredData[3]
    /\ filteredData[1] # filteredData[3]
    /\ currentStats[1].name \in ExactCommission(filteredData)
    /\ currentStats[1].commission > 0
    /\ currentStats[1].nights > 0

-----------------------------------------------------------------------------
(* Properties of the coercion of amounts, checked under SpecCoerce *)

\* The number an amount stands for, 0 when it cannot be parsed
AmountOrZero(x) ==
    LET n == NumberOrParsed(x)
    IN  IF n = NotANumber THEN 0 ELSE n

PricesOrZero(d) == [i \in 1..Len(d) |-> AmountOrZero(d[i].totalPrice)]

CommissionsOrZero(d) == [i \in 1..Len(d) |-> AmountOrZero(d[i].commission)]

\* C11 as stated: after calculateStats has run over records whose totalPrice or
\* commission may be a string, every bucket's revenue and commission is a finite
\* number, namely the sum over the bucket's records that are not cancelled of the
\* parsed amounts, with 0 for an amount that cannot be parsed.
C11_UnparseableCountsAsZero ==
    TableRendered =>
        \A i \in 1..Len(currentStats) :
            LET recs == Active(RecordsNamed(filteredData, currentStats[i].name))
            IN  /\ currentStats[i].revenue # NotANumber
                /\ currentStats[i].commission # NotANumber
                /\ currentStats[i].revenue = SumLeft(PricesOrZero(recs))
                /\ currentStats[i].commission = SumLeft(CommissionsOrZero(recs))

-----------------------------------------------------------------------------
(* Properties of the monthly commissions, checked under SpecCommissions *)

\* The records the chart groups: those booked from startDate to endDate
Grouped(d) ==
    LET Test(b) == /\ b.bookingDate.k = "date"
                   /\ b.bookingDate.t >= startDate.t
                   /\ b.bookingDate.t <= endDate.t
    IN  SelectSeq(d, Test)

RecordsOfMonth(d, m) ==
    LET Test(b) == MonthKey(b.bookingDate) = m
    IN  SelectSeq(d, Test)

MonthsIn(d) == {MonthKey(d[i].bookingDate) : i \in 1..Len(d)}

\* The i-th month of a set of months in chronological order
NthMonth(months, i) ==
    CHOOSE m \in months : Cardinality({k \in months : k < m}) = i - 1

CommissionsAreNumbers(d) == \A i \in 1..Len(d) : d[i].commission.type = "number"

\* C13 as stated: over records whose commission is a number, the chart emits one
\* total per month key of the grouped records, in ascending chronological order
\* of the months, and the total of a month is the sum of commission over the
\* records of that month that are not cancelled.
C13_MonthlyCommissionSkipsCancelled ==
    (phase = "commissions" /\ CommissionsAreNumbers(filteredData)) =>
        LET grouped == Grouped(filteredData)
            months == MonthsIn(grouped)
        IN  /\ Len(chartData.data) = Cardinality(months)
            /\ Len(chartData.labels) = Cardinality(months)
            /\ \A i, j \in 1..Len(chartData.labels) :
                   i < j => chartData.labels[i] < chartData.labels[j]
            /\ \A i \in 1..Len(chartData.data) :
                   chartData.data[i]
                   = NumberValue(SumLeft(Commissions(
                         Active(RecordsOfMonth(grouped, NthMonth(months, i))))))

-----------------------------------------------------------------------------
(* Properties of the comparison and the ranking, checked under SpecCompare *)

Changes(e) ==
    {e.revenueChange, e.bookingsChange, e.commissionChange, e.nightsChange,
     e.cancellationRateChange}

\* The prior bucket's value of a metric, 0 when the prior period has no such bucket
PriorOrZero(prior, field) == IF IsDefined(prior) THEN prior[1][field] ELSE 0

\* C1 as stated: for every accommodation of the comparator output, the change
\* of revenue, bookings, commission and nights is unset whenever the prior period
\* has no bucket of that name or the prior bucket's value of the metric is 0, and
\* no change is Infinity, -Infinity or NaN.
C1_ChangeUnsetWithoutBase ==
    TableRendered =>
        \A i \in 1..Len(accommodationStats) :
            LET e == accommodationStats[i]
                prior == Find(comparisonStats, e.name)
            IN  /\ PriorOrZero(prior, "revenue") = 0 => e.revenueChange = Unset
                /\ PriorOrZero(prior, "bookings") = 0 => e.bookingsChange = Unset
                /\ PriorOrZero(prior, "commission") = 0 => e.commissionChange = Unset
                /\ PriorOrZero(prior, "nights") = 0 => e.nightsChange = Unset
                /\ \A c \in Changes(e) : c.k \notin {"Infinity", "-Infinity", "NaN"}

FirstIndex(d, n) ==
    CHOOSE i \in 1..Len(d) :
        NameOf(d[i]) = n /\ \A j \in 1..(i - 1) : NameOf(d[j]) # n

\* a ranks before b: by revenue, and among equal revenues by first appearance
RanksBefore(d, a, b) ==
    \/ a.revenue > b.revenue
    \/ a.revenue = b.revenue /\ FirstIndex(d, a.name) < FirstIndex(d, b.name)

\* C4: the ranked list has length min(30, number of distinct names of the current
\* set), is ordered non-increasing by revenue with equal revenues in the order in
\* which their names first appeared, consists of buckets of the current set, and
\* every bucket left out ranks behind every bucket listed.
C4_RankedTopThirty ==
    TableRendered =>
        /\ Len(accommodationStats) = Min(30, Cardinality(NamesIn(filteredData)))
        /\ \A i, j \in 1..Len(accommodationStats) :
               i < j =>
                   /\ accommodationStats[i].revenue >= accommodationStats[j].revenue
                   /\ RanksBefore(filteredData, accommodationStats[i],
                                  accommodationStats[j])
        /\ \A i \in 1..Len(accommodationStats) :
               Sums(accommodationStats[i]) \in SumsOf(currentStats)
        /\ \A k \in 1..Len(currentStats) :
               \/ \E i \in 1..Len(accommodationStats) :
                      accommodationStats[i].name = currentStats[k].name
               \/ \A i \in 1..Len(accommodationStats) :
                      RanksBefore(filteredData, accommodationStats[i], currentStats[k])

\* C4 witness: more than 30 accommodations have been ranked; the list holds 30,
\* its head is not the first bucket of the input, and a bucket left out has the
\* revenue of the last one listed.
C4_Witness ==
    /\ TableRendered
    /\ Len(currentStats) > 30
    /\ Len(accommodationStats) = 30
    /\ accommodationStats[1].name # currentStats[1].name
    /\ \E k \in 1..Len(currentStats) :
           /\ currentStats[k].revenue = accommodationStats[30].revenue
           /\ \A i \in 1..30 : accommodationStats[i].name # currentStats[k].name

\* C5: for every listed accommodation that also has a bucket in the prior period,
\* each of revenueChange, bookingsChange, commissionChange and nightsChange whose
\* prior value is not 0 equals (current - prior) / prior, and
\* cancellationRateChange equals the difference of the two cancellation rates,
\* current.cancelled / current.bookings - prior.cancelled / prior.bookings.
C5_ChangesAreRelative ==
    TableRendered =>
        \A i \in 1..Len(accommodationStats) :
            LET e == accommodationStats[i]
                prior == Find(comparisonStats, e.name)
                p == prior[1]
                Relative(change, cur, base) ==
                    base # 0 => /\ change.k = "fin"
                                /\ SameNumber(change, Finite(cur - base, base))
            IN  IsDefined(prior) =>
                    /\ Relative(e.revenueChange, e.revenue, p.revenue)
                    /\ Relative(e.bookingsChange, e.bookings, p.bookings)
                    /\ Relative(e.commissionChange, e.commission, p.commission)
                    /\ Relative(e.nightsChange, e.nights, p.nights)
                    /\ e.cancellationRateChange.k = "fin"
                    /\ SameNumber(e.cancellationRateChange,
                                  Finite(e.cancelledBookings * p.bookings
                                         - p.cancelledBookings * e.bookings,
                                         e.bookings * p.bookings))

\* C5 witness: an accommodation with revenue 3 against 2 before is listed with a
\* revenue change of 1/2, and its cancellation rate went from 1/2 to 0.
C5_Witness ==
    /\ TableRendered
    /\ \E i \in 1..Len(accommodationStats) :
           LET e == accommodationStats[i]
               prior == Find(comparisonStats, e.name)
           IN  /\ IsDefined(prior)
               /\ e.revenue = 3
               /\ prior[1].revenue = 2
               /\ SameNumber(e.revenueChange, Finite(1, 2))
               /\ prior[1].cancelledBookings = 1
               /\ prior[1].bookings = 2
               /\ SameNumber(e.cancellationRateChange, Finite(-1, 2))

NamesOf(stats) == {stats[i].name : i \in 1..Len(stats)}

\* The names of the prior period, none when there is no prior period
PriorNames == IF IsDefined(comparisonData) THEN NamesIn(comparisonData[1]) ELSE {}

\* C12: the names of the comparator output before the truncation to 30 are the
\* names of the current period; the list that is kept holds names of the current
\* period only, all of them when there are at most 30, so a name that only the
\* prior period has is never listed; and an entry whose name only the current
\* period has is listed with all five change fields unset.
C12_CurrentAnchored ==
    TableRendered =>
        /\ NamesOf(Compared(currentStats, comparisonStats)) = NamesIn(filteredData)
        /\ Len(Compared(currentStats, comparisonStats))
           = Cardinality(NamesIn(filteredData))
        /\ NamesOf(accommodationStats) \subseteq NamesIn(filteredData)
        /\ Cardinality(NamesIn(filteredData)) <= 30
               => NamesOf(accommodationStats) = NamesIn(filteredData)
        /\ \A i \in 1..Len(accommodationStats) :
               accommodationStats[i].name \notin PriorNames
                   => Changes(accommodationStats[i]) = {Unset}

\* C12 witness: the table has compared a current period with a prior period
\* that has a name the current one lacks and lacks a name the current one has:
\* the first is not listed, the second is listed without changes.
C12_Witness ==
    /\ TableRendered
    /\ \E n \in PriorNames :
           /\ n \notin NamesIn(filteredData)
           /\ n \notin NamesOf(accommodationStats)
    /\ \E i \in 1..Len(accommodationStats) :
           /\ accommodationStats[i].name \notin PriorNames
           /\ accommodationStats[i].revenue > 0
           /\ Changes(accommodationStats[i]) = {Unset}

-----------------------------------------------------------------------------
(* Properties of the record filter, checked under Spec *)

NoRegionSelected == selectedRegion = "" \/ selectedRegion = AllRegions

\* The region test: a record passes when no region is selected or its region is
\* the selected one
RegionTest(b) == NoRegionSelected \/ b.region = selectedRegion

\* year(arrivalDate) = year
YearTest(b, year) ==
    b.arrivalDate.k = "date" /\ GetFullYear(b.arrivalDate).v = year

IntervalIsSet ==
    /\ IsDefined(dateRange)
    /\ dateRange[1].start.k = "date"
    /\ dateRange[1].end.k = "date"

\* arrivalDate lies between the start of the start day and the end of the end day,
\* both included; every record passes while no complete interval is set
DateTest(b) ==
    IntervalIsSet =>
        /\ b.arrivalDate.k = "date"
        /\ b.arrivalDate.t \div 2 >= dateRange[1].start.t \div 2
        /\ b.arrivalDate.t \div 2 <= dateRange[1].end.t \div 2

ModeTest(b) == IF isYearComparison THEN YearTest(b, selectedYear1) ELSE DateTest(b)

\* C3 as stated: while no region is selected ('' or 'Alle Regionen') the current
\* set, in date mode and in year mode, and the comparison set hold the records of
\* every region that pass the date or year test; while a region is selected they
\* hold exactly those of that region.
C3_NoRegionLetsAllPass ==
    phase = "rendered" =>
        LET Current(b) ==
                /\ ModeTest(b)
                /\ NoRegionSelected \/ b.region = selectedRegion
            Prior(b) ==
                /\ YearTest(b, selectedYear2)
                /\ NoRegionSelected \/ b.region = selectedRegion
        IN  /\ filteredData = SelectSeq(data, Current)
            /\ IsDefined(comparisonData) => comparisonData[1] = SelectSeq(data, Prior)

\* C6 as stated: computing the current set and the comparison set never raises,
\* and a record whose arrivalDate cannot be parsed is left out of both sets and
\* the pass that met it has logged it.
C6_FilterNeverRaisesAndLogs ==
    /\ phase # "crashed"
    /\ phase = "rendered" =>
           \A i \in 1..Len(data) :
               data[i].arrivalDate.k = "invalid" =>
                   /\ data[i] \notin Range(filteredData)
                   /\ console.filtered >= 1
                   /\ IsDefined(comparisonData) =>
                          /\ data[i] \notin Range(comparisonData[1])
                          /\ console.comparison >= 1

\* C7 as stated: in year mode the current set is, in input order, exactly the
\* records that pass the region test and arrive in selectedYear1, and the
\* comparison set exactly those that pass it and arrive in selectedYear2.
C7_YearModeSets ==
    (phase = "rendered" /\ isYearComparison) =>
        LET Current(b) == RegionTest(b) /\ YearTest(b, selectedYear1)
            Prior(b) == RegionTest(b) /\ YearTest(b, selectedYear2)
        IN  /\ filteredData = SelectSeq(data, Current)
            /\ IsDefined(comparisonData)
            /\ comparisonData[1] = SelectSeq(data, Prior)

\* C8 as stated: in date mode the current set is exactly the records that pass the
\* region test and whose arrivalDate lies in the inclusive day interval; without a
\* complete interval every record passes the date test.
C8_DateModeSet ==
    (phase = "rendered" /\ ~isYearComparison) =>
        LET Current(b) == RegionTest(b) /\ DateTest(b)
        IN  filteredData = SelectSeq(data, Current)

-----------------------------------------------------------------------------
(* Properties of the memoized values, checked under Spec *)

\* C14: after any sequence of uploads, comparison toggles, year changes and
\* region changes, filteredData and comparisonData are what the filter computes
\* from the present data, mode, years and region, accommodationStats is what the
\* table computes from these two sets, and comparisonData is defined exactly when
\* year comparison is enabled.
C14_MemoIsFresh ==
    phase = "rendered" =>
        /\ filteredData
           = FilteredData(data, isYearComparison, selectedYear1, dateRange,
                          selectedRegion).value
        /\ comparisonData
           = ComparisonData(data, isYearComparison, selectedYear2,
                            selectedRegion).value
        /\ currentStats = CurrentStats(filteredData)
        /\ comparisonStats = ComparisonStats(comparisonData)
        /\ accommodationStats \in RankedOutcomes(currentStats, comparisonStats)
        /\ IsDefined(comparisonData) <=> isYearComparison

\* C14 witness: after an upload, a region change and a switch to year mode both
\* sets hold records, they differ, and the table lists an accommodation with its
\* change against the prior year.
C14_Witness ==
    /\ phase = "rendered"
    /\ isYearComparison
    /\ selectedRegion # AllRegions
    /\ Len(data) = MaxData
    /\ filteredData # <<>>
    /\ IsDefined(comparisonData)
    /\ comparisonData[1] # <<>>
    /\ comparisonData[1] # filteredData
    /\ Len(accommodationStats) = 1
    /\ accommodationStats[1].bookingsChange # Unset

=============================================================================
